---- MODULE Spec2Model ----
(***************************************************************************)
(* Template registry of chrisnk1/github-issue-fixer: the Template model    *)
(* (backend/models/template.py), TemplateService                           *)
(* (backend/services/template_service.py) and the build endpoint           *)
(* (backend/api/template_build.py), run by concurrent callers that each    *)
(* hold their own database session against one shared relational store.   *)
(*                                                                         *)
(* The store is READ COMMITTED with an immediate unique index on           *)
(* (project_id, alias): a query sees committed rows only, an INSERT or     *)
(* UPDATE that collides with a committed row raises IntegrityError, and    *)
(* one that collides with another session's uncommitted row waits for      *)
(* that session to commit or roll back.                                    *)
(***************************************************************************)
EXTENDS Integers, FiniteSets, Sequences, TLC

\* ---------------------------------------------------------------- bounds
Callers  == {"c1", "c2"}
Projects == {"p1", "p2"}
Aliases  == {"a", "b"}
\* None for an optional argument: alias=None is "", config=None is "none"
NoAlias  == ""
NoConfig == "none"
\* a config is a mapping: "empty" is {} (falsy in Python), the others are
\* non-empty; create calls pass "cfg", update calls None, {} or "cfg2"
CreateConfigs == {"cfg"}
UpdateConfigs == {NoConfig, "empty", "cfg2"}
\* identifiers uuid4 may hand out in one run
MaxIds   == 2
Ids      == 1..MaxIds

VARIABLES
    templates,  \* committed rows of table 'templates'
    nextId,     \* next fresh identifier (uuid.uuid4 default of Template.id)
    project,    \* the project each caller's credential resolves to
    pc,         \* where each caller is in its current call
    op,         \* the arguments of each caller's current call
    pending,    \* row each session has flushed (INSERTed) but not committed
    dirty,      \* attribute changes made to the loaded object, not yet flushed
    result,     \* what the caller's last finished call returned or raised
    schema      \* columns and constraints of table 'templates', and how far
                \* the migration that scopes aliases by project has run

vars == <<templates, nextId, project, pc, op, pending, dirty, result, schema>>

\* ---------------------------------------------------------------- values
\* the build status a row is inserted with, and the ones the build backend
\* moves it through
BuildStatuses == {"pending", "building", "ready", "failed"}

NoRow == [id |-> 0, alias |-> "", project_id |-> "", config |-> "",
          build_status |-> ""]

\* Template(alias=, project_id=, config=) as inserted: id from uuid4,
\* build_status from the column's default
Row(id, alias, project_id, config) ==
    [id |-> id, alias |-> alias, project_id |-> project_id, config |-> config,
     build_status |-> "pending"]

\* a NULL project_id
Null == "NULL"

\* no unique constraint on alias alone
NoConstraint == ""

\* the name PostgreSQL gives the UNIQUE constraint of templates.alias, and a
\* name given to it explicitly
ConstraintNames == {"templates_alias_key", "uq_templates_alias"}

\* table 'templates' before the migration: no project_id column, alias
\* unique on its own under constraint `name`
Unmigrated(name) ==
    [project_id |-> "absent", alias_key |-> name, idx_alias_project |-> FALSE,
     projects |-> FALSE, tx |-> "open", step |-> "add_column"]

\* table 'templates' as the Template model declares it and upgrade() leaves it
Migrated ==
    [project_id |-> "not_null", alias_key |-> NoConstraint,
     idx_alias_project |-> TRUE, projects |-> TRUE, tx |-> "open",
     step |-> "done"]

NoOp == [kind |-> "none", api |-> "none", alias |-> NoAlias,
         config |-> NoConfig, force |-> FALSE, tid |-> 0]

Call(kind, api, alias, config, force, tid) ==
    [kind |-> kind, api |-> api, alias |-> alias, config |-> config,
     force |-> force, tid |-> tid]

NoDirty == [alias |-> NoAlias, config |-> NoConfig]

NoResult == [kind |-> "none", msg |-> "", tid |-> 0, status |-> 0]

\* a returned Template / bool, or a raised exception
Returned(kind, tid) == [kind |-> kind, msg |-> "", tid |-> tid, status |-> 0]
Raised(kind, msg)   == [kind |-> kind, msg |-> msg, tid |-> 0, status |-> 0]

\* messages of the ValueErrors the service raises
MsgExistsNamed == "Alias already exists in project '<project.name>'"
MsgExists      == "Alias already exists in project"
MsgNotFound    == "Template not found in project"
\* details of the HTTP answers of the build endpoint
DetailTaken     == "Alias is already taken in project '<project.name>'"
DetailIntegrity == "Template build failed due to data integrity constraints"
DetailInternal  == "Internal server error during template build"
MsgStarted      == "Template build started successfully"

HTTP_200_OK                    == 200
HTTP_400_BAD_REQUEST           == 400
HTTP_404_NOT_FOUND             == 404
HTTP_500_INTERNAL_SERVER_ERROR == 500

HTTPException(status_code, detail) ==
    [kind |-> "HTTPException", msg |-> detail, tid |-> 0,
     status |-> status_code]

\* ------------------------------------------------------- Template model
\* the lookup by alias alone (aliases unique globally)
get_by_alias_ignoring_project(project_id, alias) ==
    {t \in templates : t.alias = alias}

\* session.query(Template).filter(project_id == P, alias == A): the rows
\* .first() may return
get_by_project_and_alias(project_id, alias) ==
    {t \in templates : t.project_id = project_id /\ t.alias = alias}

\* the check without the project filter (aliases unique globally, as before
\* the change to per-project aliases)
alias_exists_ignoring_project(project_id, alias, exclude_id) ==
    LET query  == {t \in templates : t.alias = alias}
        query2 == IF exclude_id # 0
                  THEN {t \in query : t.id # exclude_id} ELSE query
    IN  query2 # {}

\* the check called with project_id and alias swapped
alias_exists_swapped_args(project_id, alias, exclude_id) ==
    LET query  == {t \in templates :
                       t.project_id = alias /\ t.alias = project_id}
        query2 == IF exclude_id # 0
                  THEN {t \in query : t.id # exclude_id} ELSE query
    IN  query2 # {}

\* the check without the exclude_id filter
alias_exists_without_exclude(project_id, alias, exclude_id) ==
    {t \in templates : t.project_id = project_id /\ t.alias = alias} # {}

\* exclude_id = 0 is exclude_id=None
alias_exists_in_project(project_id, alias, exclude_id) ==
    LET query  == {t \in templates :
                       t.project_id = project_id /\ t.alias = alias}
        query2 == IF exclude_id # 0
                  THEN {t \in query : t.id # exclude_id} ELSE query
    IN  query2 # {}

\* the query without the project filter
get_template_any_project(project_id, template_id) ==
    {t \in templates : t.id = template_id}

\* session.query(Template).filter(id == template_id, project_id == P)
get_template(project_id, template_id) ==
    {t \in templates : t.id = template_id /\ t.project_id = project_id}

get_by_alias(project_id, alias) == get_by_project_and_alias(project_id, alias)

\* what .first() returns: one of the rows, or None (NoRow) when there is none
First(rows) == IF rows = {} THEN {NoRow} ELSE rows

\* ------------------------------------------------------------ the store
\* the table without the composite unique constraint
unique_violation_never(row) == FALSE

\* UniqueConstraint('project_id', 'alias'): a committed row other than `row`
\* itself already holds the pair
unique_violation(row) ==
    \E t \in templates :
        t.id # row.id /\ t.project_id = row.project_id /\ t.alias = row.alias

\* another session holds an uncommitted row with the pair: the statement waits
unique_wait(c, row) ==
    \E d \in Callers \ {c} :
        /\ pending[d] # NoRow
        /\ pending[d].project_id = row.project_id
        /\ pending[d].alias = row.alias

\* ------------------------------------------------------ build endpoint
\* the except clauses of request_build: IntegrityError -> 400, any other
\* Exception (an HTTPException raised in the try block included) -> 500
request_build_except(exc) ==
    IF exc.kind = "IntegrityError"
    THEN HTTPException(HTTP_400_BAD_REQUEST, DetailIntegrity)
    ELSE HTTPException(HTTP_500_INTERNAL_SERVER_ERROR, DetailInternal)

\* what request_build answers when its try block ended with `outcome`
request_build_response(outcome) ==
    IF outcome.kind = "Template"
    THEN [kind |-> "BuildResponse", msg |-> MsgStarted, tid |-> outcome.tid,
          status |-> HTTP_200_OK]
    ELSE request_build_except(outcome)

\* TemplateService.delete_template(db, existing_template.id): the method is
\* called on the class, so self is the Session and self.db does not exist
delete_template_unbound == Raised("AttributeError", "no attribute 'db'")

\* ------------------------------------------- /templates endpoints and SDK
\* get_project_id_from_api_key(request): reads the X-API-Key header of the
\* caller's request and returns the same project for every key
DefaultProject == "default_project"

get_project_id_from_api_key(c) == DefaultProject

MsgTakenInProject ==
    "Alias '<alias>' is already taken in project '<project_id>'"
MsgTakenYourProject ==
    "Template alias '<alias>' is already taken in your project. Please choose a different alias."
MsgKeyRequired == "API key is required"
MsgFailed      == "Failed to request build: 500 Server Error"
MsgServerError == "Internal Server Error"

\* `"already taken" in message`
AlreadyTaken(message) == message \in {MsgTakenInProject, MsgTakenYourProject}

HTTP_401_UNAUTHORIZED == 401

\* BuildException(status_code=, message=); every message raised here names
\* the project, so the constructor leaves it as it is
BuildException(status_code, message) ==
    [kind |-> "BuildException", msg |-> message, tid |-> 0,
     status |-> status_code]

\* the handler create_exception_handlers registers for BuildException: it
\* builds a JSONResponse, a name the module never imports
build_exception_handler(exc) ==
    Raised("NameError", "name 'JSONResponse' is not defined")

\* the HTTP response of the application to a /templates request that ended
\* with `outcome`: the returned dict as JSON, or the 500 of an exception
\* that nothing handles
app_response(outcome) ==
    LET raised == IF outcome.kind = "BuildException"
                  THEN build_exception_handler(outcome)
                  ELSE outcome
    IN  IF raised.kind = "TemplateJSON"
        THEN [kind |-> "Response", msg |-> raised.msg, tid |-> raised.tid,
              status |-> HTTP_200_OK]
        ELSE [kind |-> "Response", msg |-> MsgServerError, tid |-> 0,
              status |-> HTTP_500_INTERNAL_SERVER_ERROR]

\* the SDK's request_build from the response of its POST on: a 400 becomes
\* a BuildException(400), any other error status a BuildException(500)
sdk_request_build_outcome(response) ==
    IF response.status = HTTP_400_BAD_REQUEST
    THEN IF AlreadyTaken(response.msg)
         THEN BuildException(HTTP_400_BAD_REQUEST, MsgTakenYourProject)
         ELSE BuildException(HTTP_400_BAD_REQUEST, response.msg)
    ELSE IF response.status >= HTTP_400_BAD_REQUEST
    THEN BuildException(HTTP_500_INTERNAL_SERVER_ERROR, MsgFailed)
    ELSE response

\* a call of caller c starts on a fresh session
CanCall(c) == pc[c] = "idle" /\ pending[c] = NoRow

\* the call of caller c ends with `outcome`; o are its arguments
Finish(c, o, outcome) ==
    /\ pc' = [pc EXCEPT ![c] = "idle"]
    /\ op' = [op EXCEPT ![c] = NoOp]
    /\ result' = [result EXCEPT ![c] =
                     IF o.api = "endpoint" THEN request_build_response(outcome)
                     ELSE IF o.api = "http" THEN app_response(outcome)
                     ELSE IF o.api = "sdk"
                     THEN sdk_request_build_outcome(app_response(outcome))
                     ELSE outcome]

Goto(c, o, label) ==
    /\ pc' = [pc EXCEPT ![c] = label]
    /\ op' = [op EXCEPT ![c] = o]
    /\ result' = [result EXCEPT ![c] = NoResult]

\* ------------------------------------------------------ create_template
\* service.create_template(alias, config) is called
create_template(c, alias, config) ==
    /\ CanCall(c)
    /\ Goto(c, Call("create", "service", alias, config, FALSE, 0),
            "create_check")
    /\ UNCHANGED <<templates, nextId, project, pending, dirty, schema>>

create_template_call(c) ==
    \E A \in Aliases, cfg \in CreateConfigs : create_template(c, A, cfg)

\* the pre-check
create_template_check(c) ==
    /\ pc[c] = "create_check"
    /\ IF alias_exists_in_project(project[c], op[c].alias, 0)
       THEN Finish(c, op[c], Raised("ValueError", MsgExistsNamed))
       ELSE Goto(c, op[c], "create_flush")
    /\ UNCHANGED <<templates, nextId, project, pending, dirty, schema>>

\* db.add(template); db.flush(): the INSERT
create_template_flush(c) ==
    /\ pc[c] = "create_flush"
    /\ LET row == Row(nextId, op[c].alias, project[c], op[c].config) IN
       /\ ~unique_wait(c, row)
       /\ IF unique_violation(row)
          THEN \* except IntegrityError: rollback, raise ValueError
               /\ Finish(c, op[c], Raised("ValueError", MsgExists))
               /\ UNCHANGED <<templates, nextId, pending>>
          ELSE /\ nextId <= MaxIds
               /\ pending' = [pending EXCEPT ![c] = row]
               /\ nextId' = nextId + 1
               /\ Goto(c, op[c], "create_build")
               /\ UNCHANGED templates
    /\ UNCHANGED <<project, dirty, schema>>

\* BuildSystem().start_build(template): the backend accepts the build or raises
create_template_start_build(c) ==
    /\ pc[c] = "create_build"
    /\ \E accepted \in BOOLEAN :
          IF accepted
          THEN Goto(c, op[c], "create_commit")
          ELSE Finish(c, op[c], Raised("BuildError", "start_build failed"))
    /\ UNCHANGED <<templates, nextId, project, pending, dirty, schema>>

\* db.commit(); return template
create_template_commit(c) ==
    /\ pc[c] = "create_commit"
    /\ templates' = templates \cup {pending[c]}
    /\ pending' = [pending EXCEPT ![c] = NoRow]
    /\ Finish(c, op[c], Returned("Template", pending[c].id))
    /\ UNCHANGED <<nextId, project, dirty, schema>>

\* -------------------------------------------------------- request_build
\* POST /build with BuildRequest(alias, config, force_rebuild): request_build
\* up to its call of create_template
request_build(c, alias, config, force_rebuild) ==
    /\ CanCall(c)
    /\ \E existing_template \in
              First(get_by_project_and_alias(project[c], alias)) :
          LET o == Call("build", "endpoint", alias, config, FALSE, 0)
          IN  IF existing_template # NoRow
              THEN IF force_rebuild
                   THEN Finish(c, o, delete_template_unbound)
                   ELSE Finish(c, o, HTTPException(HTTP_400_BAD_REQUEST,
                                                   DetailTaken))
              ELSE \* create_template(alias, config, dockerfile_content)
                   Goto(c, o, "create_check")
    /\ UNCHANGED <<templates, nextId, project, pending, dirty, schema>>

\* ------------------------------------------------------ update_template
\* service.update_template(template_id, alias, config) up to its commit: the
\* two queries and the attribute assignments
update_template(c, template_id, alias, config) ==
    /\ CanCall(c)
    /\ \E template \in First(get_template(project[c], template_id)) :
          LET o      == Call("update", "service", alias, config, FALSE,
                             template_id)
              rename == alias # NoAlias /\ alias # template.alias
              \* `if config:` an empty mapping is falsy
              setcfg == config # NoConfig /\ config # "empty"
          IN  IF template = NoRow
              THEN /\ Finish(c, o, Raised("ValueError", MsgNotFound))
                   /\ UNCHANGED dirty
              ELSE IF rename /\ alias_exists_in_project(project[c], alias,
                                                        template.id)
              THEN /\ Finish(c, o, Raised("ValueError", MsgExists))
                   /\ UNCHANGED dirty
              ELSE /\ dirty' = [dirty EXCEPT ![c] =
                          [alias  |-> IF rename THEN alias ELSE NoAlias,
                           config |-> IF setcfg /\ config # template.config
                                      THEN config ELSE NoConfig]]
                   /\ Goto(c, Call("update", "service", NoAlias, NoConfig,
                                    FALSE, template.id), "update_commit")
    /\ UNCHANGED <<templates, nextId, project, pending, schema>>

\* the commit writing the template back as a new Template(alias, project_id,
\* config), all other columns at their defaults
update_template_commit_resets_status(c) ==
    /\ pc[c] = "update_commit"
    /\ LET d      == dirty[c]
           stored == {t \in templates : t.id = op[c].tid}
       IN  IF d = NoDirty
           THEN /\ Finish(c, op[c], Returned("Template", op[c].tid))
                /\ UNCHANGED templates
           ELSE IF stored = {}
           THEN /\ Finish(c, op[c], Raised("StaleDataError", "0 rows matched"))
                /\ UNCHANGED templates
           ELSE \E old \in stored :
                LET new == Row(old.id,
                               IF d.alias # NoAlias THEN d.alias ELSE old.alias,
                               old.project_id,
                               IF d.config # NoConfig THEN d.config
                               ELSE old.config)
                IN  /\ ~(d.alias # NoAlias /\ unique_wait(c, new))
                    /\ IF d.alias # NoAlias /\ unique_violation(new)
                       THEN /\ Finish(c, op[c],
                                      Raised("IntegrityError",
                                             "templates_project_alias_unique"))
                            /\ UNCHANGED templates
                       ELSE /\ Finish(c, op[c], Returned("Template", old.id))
                            /\ templates' = (templates \ {old}) \cup {new}
    /\ dirty' = [dirty EXCEPT ![c] = NoDirty]
    /\ UNCHANGED <<nextId, project, pending, schema>>

\* the commit writing the columns one statement each: the config is written
\* before the alias is rejected
update_template_commit_partial(c) ==
    /\ pc[c] = "update_commit"
    /\ LET d      == dirty[c]
           stored == {t \in templates : t.id = op[c].tid}
       IN  IF d = NoDirty
           THEN /\ Finish(c, op[c], Returned("Template", op[c].tid))
                /\ UNCHANGED templates
           ELSE IF stored = {}
           THEN /\ Finish(c, op[c], Raised("StaleDataError", "0 rows matched"))
                /\ UNCHANGED templates
           ELSE \E old \in stored :
                LET cfg == [old EXCEPT
                               !.config = IF d.config # NoConfig
                                          THEN d.config ELSE @]
                    new == [cfg EXCEPT
                               !.alias  = IF d.alias # NoAlias
                                          THEN d.alias ELSE @]
                IN  /\ ~(d.alias # NoAlias /\ unique_wait(c, new))
                    /\ IF d.alias # NoAlias /\ unique_violation(new)
                       THEN /\ Finish(c, op[c],
                                      Raised("IntegrityError",
                                             "templates_project_alias_unique"))
                            /\ templates' = (templates \ {old}) \cup {cfg}
                       ELSE /\ Finish(c, op[c], Returned("Template", old.id))
                            /\ templates' = (templates \ {old}) \cup {new}
    /\ dirty' = [dirty EXCEPT ![c] = NoDirty]
    /\ UNCHANGED <<nextId, project, pending, schema>>

\* db.commit(): flushes the UPDATE of the changed attributes and commits;
\* nothing catches what the flush raises
update_template_commit(c) ==
    /\ pc[c] = "update_commit"
    /\ LET d      == dirty[c]
           stored == {t \in templates : t.id = op[c].tid}
       IN  IF d = NoDirty
           THEN \* nothing to flush
                /\ Finish(c, op[c], Returned("Template", op[c].tid))
                /\ UNCHANGED templates
           ELSE IF stored = {}
           THEN \* UPDATE matched 0 rows
                /\ Finish(c, op[c], Raised("StaleDataError", "0 rows matched"))
                /\ UNCHANGED templates
           ELSE \E old \in stored :
                LET new == [old EXCEPT
                               !.alias  = IF d.alias # NoAlias
                                          THEN d.alias ELSE @,
                               !.config = IF d.config # NoConfig
                                          THEN d.config ELSE @]
                IN  /\ ~(d.alias # NoAlias /\ unique_wait(c, new))
                    /\ IF d.alias # NoAlias /\ unique_violation(new)
                       THEN /\ Finish(c, op[c],
                                      Raised("IntegrityError",
                                             "templates_project_alias_unique"))
                            /\ UNCHANGED templates
                       ELSE /\ Finish(c, op[c], Returned("Template", old.id))
                            /\ templates' = (templates \ {old}) \cup {new}
    /\ dirty' = [dirty EXCEPT ![c] = NoDirty]
    /\ UNCHANGED <<nextId, project, pending, schema>>

\* ------------------------------------------------------ delete_template
\* service.delete_template(template_id) up to db.delete: the query
delete_template(c, template_id) ==
    /\ CanCall(c)
    /\ \E template \in First(get_template(project[c], template_id)) :
          LET o == Call("delete", "service", NoAlias, NoConfig, FALSE,
                        template_id)
          IN  IF template = NoRow
              THEN Finish(c, o, Returned("False", 0))
              ELSE Goto(c, o, "delete_commit")
    /\ UNCHANGED <<templates, nextId, project, pending, dirty, schema>>

\* db.delete(template); db.commit(); return True
delete_template_commit(c) ==
    /\ pc[c] = "delete_commit"
    /\ templates' = {t \in templates : t.id # op[c].tid}
    /\ Finish(c, op[c], Returned("True", 0))
    /\ UNCHANGED <<nextId, project, pending, dirty, schema>>

\* -------------------------------------------------------------- lookups
\* service.get_template(template_id): the Template of the project, or None
service_get_template(c, template_id) ==
    /\ CanCall(c)
    /\ \E template \in First(get_template(project[c], template_id)) :
          Finish(c, Call("get_template", "service", NoAlias, NoConfig, FALSE,
                         template_id),
                 IF template = NoRow THEN Returned("None", 0)
                 ELSE Returned("Template", template.id))
    /\ UNCHANGED <<templates, nextId, project, pending, dirty, schema>>

\* service.get_by_alias(alias)
service_get_by_alias(c, alias) ==
    /\ CanCall(c)
    /\ \E template \in First(get_by_alias(project[c], alias)) :
          Finish(c, Call("get_by_alias", "service", alias, NoConfig, FALSE, 0),
                 IF template = NoRow THEN Returned("None", 0)
                 ELSE Returned("Template", template.id))
    /\ UNCHANGED <<templates, nextId, project, pending, dirty, schema>>

\* GET /build/{template_id}/status
get_build_status(c, template_id) ==
    /\ CanCall(c)
    /\ \E template \in First(get_template(project[c], template_id)) :
          Finish(c, Call("status", "status", NoAlias, NoConfig, FALSE,
                         template_id),
                 IF template = NoRow
                 THEN HTTPException(HTTP_404_NOT_FOUND, MsgNotFound)
                 ELSE [kind |-> "BuildStatus", msg |-> template.build_status,
                       tid |-> template.id, status |-> HTTP_200_OK])
    /\ UNCHANGED <<templates, nextId, project, pending, dirty, schema>>

\* -------------------------------------------------------- build backend
\* the backend's completion callback moves the build of a stored template
\* along pending -> building -> {ready, failed}
build_backend(template_id) ==
    /\ \E t \in templates, s \in BuildStatuses :
          /\ t.id = template_id
          /\ \/ t.build_status = "pending" /\ s = "building"
             \/ t.build_status = "building" /\ s \in {"ready", "failed"}
          /\ templates' = (templates \ {t}) \cup {[t EXCEPT !.build_status = s]}
    /\ UNCHANGED <<nextId, project, pc, op, pending, dirty, result, schema>>

\* ------------------------------------------------------ list_templates
\* the rows the query of list_templates selects from, of any project
list_templates_filter_any_project(project_id) == templates

\* db.query(Template).filter(Template.project_id == project.id)
list_templates_filter(project_id) ==
    {t \in templates : t.project_id = project_id}

\* the orders the store may return a set of rows in (the query has no
\* ORDER BY)
Orders(rows) ==
    {s \in [1..Cardinality(rows) -> {t.id : t \in rows}] :
        \A i \in DOMAIN s, j \in DOMAIN s : s[i] = s[j] => i = j}

\* .offset(skip).limit(limit) on rows returned in order s
Page(s, skip, limit) ==
    [i \in 1..(IF Len(s) - skip < limit THEN
                  (IF Len(s) - skip < 0 THEN 0 ELSE Len(s) - skip)
               ELSE limit) |-> s[skip + i]]

\* GET /templates with skip and limit: the identifiers of the templates
\* returned and their number; PostgreSQL rejects a negative OFFSET or LIMIT
\* and nothing handles the error
list_templates(c, skip, limit) ==
    /\ CanCall(c)
    /\ LET o == Call("list", "service", NoAlias, NoConfig, FALSE, 0)
       IN  IF skip < 0 \/ limit < 0
           THEN Finish(c, o, Raised("DataError",
                                    "OFFSET and LIMIT must not be negative"))
           ELSE \E s \in Orders(list_templates_filter(project[c])) :
                   Finish(c, o,
                          [kind |-> "TemplateList", msg |-> "", tid |-> 0,
                           status |-> HTTP_200_OK,
                           templates |-> Page(s, skip, limit),
                           total |-> Len(Page(s, skip, limit))])
    /\ UNCHANGED <<templates, nextId, project, pending, dirty, schema>>

\* ---------------------------------------------------- build_template
\* POST /templates/build up to db.add: the project from the API key, the
\* lookup of the alias in it
build_template(c, alias, api) ==
    /\ CanCall(c)
    /\ LET project_id == get_project_id_from_api_key(c)
           o == Call("build_template", api, alias, NoConfig, FALSE, 0)
       IN  \E existing_template \in
                  First(get_by_project_and_alias(project_id, alias)) :
              IF existing_template # NoRow
              THEN Finish(c, o, BuildException(HTTP_400_BAD_REQUEST,
                                               MsgTakenInProject))
              ELSE Goto(c, o, "build_commit")
    /\ UNCHANGED <<templates, nextId, project, pending, dirty, schema>>

\* db.add(new_template); db.commit(); db.refresh(new_template); return the
\* dict; nothing catches what the commit raises
build_template_commit(c) ==
    /\ pc[c] = "build_commit"
    /\ LET row == Row(nextId, op[c].alias, get_project_id_from_api_key(c),
                      NoConfig)
       IN  /\ ~unique_wait(c, row)
           /\ IF unique_violation(row)
              THEN /\ Finish(c, op[c],
                             Raised("IntegrityError", "idx_alias_project"))
                   /\ UNCHANGED <<templates, nextId>>
              ELSE /\ nextId <= MaxIds
                   /\ templates' = templates \cup {row}
                   /\ nextId' = nextId + 1
                   /\ Finish(c, op[c],
                             [kind |-> "TemplateJSON", msg |-> row.project_id,
                              tid |-> row.id, status |-> 0])
    /\ UNCHANGED <<project, pending, dirty, schema>>

\* GET /templates/{alias}: the template with the alias in the project of the
\* API key; HTTPException has no keyword `message`, so the 404 is a TypeError
endpoint_get_template(c, alias) ==
    /\ CanCall(c)
    /\ LET project_id == get_project_id_from_api_key(c)
           o == Call("get_template", "http", alias, NoConfig, FALSE, 0)
       IN  \E template \in
                  First(get_by_project_and_alias(project_id, alias)) :
              IF template = NoRow
              THEN Finish(c, o, Raised("TypeError",
                                       "unexpected keyword argument 'message'"))
              ELSE Finish(c, o, [kind |-> "TemplateJSON",
                                 msg |-> template.project_id,
                                 tid |-> template.id, status |-> 0])
    /\ UNCHANGED <<templates, nextId, project, pending, dirty, schema>>

\* the SDK's request_build(template_alias, dockerfile, api_key): without a
\* key it raises before any request; with one it posts to /templates/build
sdk_request_build(c, template_alias, has_api_key) ==
    IF has_api_key
    THEN build_template(c, template_alias, "sdk")
    ELSE /\ CanCall(c)
         /\ Finish(c, Call("build_template", "none", template_alias,
                           NoConfig, FALSE, 0),
                   BuildException(HTTP_401_UNAUTHORIZED, MsgKeyRequired))
         /\ UNCHANGED <<templates, nextId, project, pending, dirty, schema>>

\* ------------------------------------------------ migration upgrade()
\* upgrade() runs in one transaction (PostgreSQL DDL is transactional): an
\* exception that leaves upgrade() rolls back every statement it ran
upgrade_rolled_back ==
    /\ templates' = {[t EXCEPT !.project_id = Null] : t \in templates}
    /\ schema' = [Unmigrated(IF schema.alias_key = NoConstraint
                             THEN "templates_alias_key"
                             ELSE schema.alias_key)
                     EXCEPT !.step = "failed"]

\* op.add_column('templates', project_id, nullable=True) and the index on it
upgrade_add_column ==
    /\ schema.step = "add_column"
    /\ schema' = [schema EXCEPT !.project_id = "nullable",
                                !.step = "assign_default"]
    /\ UNCHANGED <<templates, nextId, project, pc, op, pending, dirty, result>>

\* UPDATE templates SET project_id = 'default_project'
\* WHERE project_id IS NULL
upgrade_assign_default ==
    /\ schema.step = "assign_default"
    /\ templates' = {IF t.project_id = Null
                     THEN [t EXCEPT !.project_id = DefaultProject]
                     ELSE t : t \in templates}
    /\ schema' = [schema EXCEPT !.step = "alter_column"]
    /\ UNCHANGED <<nextId, project, pc, op, pending, dirty, result>>

\* op.alter_column('templates', 'project_id', nullable=False)
upgrade_alter_column ==
    /\ schema.step = "alter_column"
    /\ IF \E t \in templates : t.project_id = Null
       THEN upgrade_rolled_back
       ELSE /\ schema' = [schema EXCEPT !.project_id = "not_null",
                                        !.step = "drop_constraint"]
            /\ UNCHANGED templates
    /\ UNCHANGED <<nextId, project, pc, op, pending, dirty, result>>

\* try: op.drop_constraint('templates_alias_key', ...) except: pass
\* a constraint of another name is not found: the statement fails, the
\* exception is swallowed and the transaction is left aborted
upgrade_drop_constraint ==
    /\ schema.step = "drop_constraint"
    /\ schema' = IF schema.alias_key = "templates_alias_key"
                 THEN [schema EXCEPT !.alias_key = NoConstraint,
                                     !.step = "create_index"]
                 ELSE [schema EXCEPT !.tx = "aborted",
                                     !.step = "create_index"]
    /\ UNCHANGED <<templates, nextId, project, pc, op, pending, dirty, result>>

\* the database running each statement of upgrade() in a transaction of its
\* own: the failed drop_constraint does not stop the statements after it
upgrade_create_index_autocommit ==
    /\ schema.step = "create_index"
    /\ IF \E t1 \in templates, t2 \in templates :
             t1.id # t2.id /\ t1.alias = t2.alias
                           /\ t1.project_id = t2.project_id
       THEN upgrade_rolled_back
       ELSE /\ schema' = [schema EXCEPT !.idx_alias_project = TRUE,
                                        !.step = "create_table"]
            /\ UNCHANGED templates
    /\ UNCHANGED <<nextId, project, pc, op, pending, dirty, result>>

\* op.create_index('idx_alias_project', 'templates', ['alias', 'project_id'],
\* unique=True): fails in an aborted transaction, and on rows that repeat
\* a pair
upgrade_create_index ==
    /\ schema.step = "create_index"
    /\ IF \/ schema.tx = "aborted"
          \/ \E t1 \in templates, t2 \in templates :
                t1.id # t2.id /\ t1.alias = t2.alias
                              /\ t1.project_id = t2.project_id
       THEN upgrade_rolled_back
       ELSE /\ schema' = [schema EXCEPT !.idx_alias_project = TRUE,
                                        !.step = "create_table"]
            /\ UNCHANGED templates
    /\ UNCHANGED <<nextId, project, pc, op, pending, dirty, result>>

\* op.create_table('projects', ...), the INSERT of the default project, and
\* the return of upgrade()
upgrade_create_table ==
    /\ schema.step = "create_table"
    /\ schema' = [schema EXCEPT !.projects = TRUE, !.step = "done"]
    /\ UNCHANGED <<templates, nextId, project, pc, op, pending, dirty, result>>

\* the constraints of table 'templates' reject the row
schema_violation(row) ==
    \/ schema.project_id = "not_null" /\ row.project_id = Null
    \/ /\ schema.alias_key # NoConstraint
       /\ \E t \in templates : t.id # row.id /\ t.alias = row.alias
    \/ /\ schema.idx_alias_project
       /\ \E t \in templates :
             t.id # row.id /\ t.alias = row.alias
                           /\ t.project_id = row.project_id

\* after upgrade() a caller inserts Template(alias=, project_id=) for its
\* project and commits
insert_template(c, alias) ==
    /\ schema.step = "done"
    /\ CanCall(c)
    /\ nextId <= MaxIds
    /\ LET row == Row(nextId, alias, project[c], "cfg")
           o   == Call("insert", "service", alias, "cfg", FALSE, 0)
       IN  IF schema_violation(row)
           THEN /\ Finish(c, o, Raised("IntegrityError", "unique"))
                /\ UNCHANGED <<templates, nextId>>
           ELSE /\ templates' = templates \cup {row}
                /\ nextId' = nextId + 1
                /\ Finish(c, o, Returned("Template", row.id))
    /\ UNCHANGED <<project, pending, dirty, schema>>

\* a session that is never closed after a call that raised
session_close_never(c) == FALSE

\* --------------------------------------------------------- the session
\* the session of a call that ended without commit or rollback is closed:
\* what it flushed is rolled back
session_close(c) ==
    /\ pc[c] = "idle"
    /\ pending[c] # NoRow
    /\ pending' = [pending EXCEPT ![c] = NoRow]
    /\ UNCHANGED <<templates, nextId, project, pc, op, dirty, result, schema>>

\* -------------------------------------------------------- specification
Init ==
    /\ templates = {}
    /\ nextId = 1
    \* callers are interchangeable: the first one is of project p1
    /\ project \in {f \in [Callers -> Projects] : f["c1"] = "p1"}
    /\ pc = [c \in Callers |-> "idle"]
    /\ op = [c \in Callers |-> NoOp]
    /\ pending = [c \in Callers |-> NoRow]
    /\ dirty = [c \in Callers |-> NoDirty]
    /\ result = [c \in Callers |-> NoResult]
    /\ schema = Migrated

Next ==
    \E c \in Callers :
        \/ create_template_call(c)
        \/ create_template_check(c)
        \/ create_template_flush(c)
        \/ create_template_start_build(c)
        \/ create_template_commit(c)
        \/ \E alias \in Aliases, config \in CreateConfigs,
              force_rebuild \in BOOLEAN :
              request_build(c, alias, config, force_rebuild)
        \/ \E template_id \in Ids, alias \in Aliases \cup {NoAlias},
              config \in UpdateConfigs :
              update_template(c, template_id, alias, config)
        \/ update_template_commit(c)
        \/ \E template_id \in Ids : delete_template(c, template_id)
        \/ delete_template_commit(c)
        \/ session_close(c)

Spec == Init /\ [][Next]_vars

\* ----------------------------------------------- two creates that race
\* Both callers are of one project and have called create_template with the
\* same alias, which no stored template of the project holds; the store is
\* empty or holds one other row.
InitRace ==
    /\ project \in {f \in [Callers -> Projects] : f["c1"] = f["c2"]}
    /\ op \in {[c \in Callers |-> Call("create", "service", A, cfg, FALSE, 0)] :
                 A \in Aliases, cfg \in CreateConfigs}
    /\ templates \in {{}} \cup {{Row(1, A, P, cfg)} :
                                   A \in Aliases, P \in Projects,
                                   cfg \in CreateConfigs}
    /\ \A t \in templates :
           ~(t.project_id = project["c1"] /\ t.alias = op["c1"].alias)
    /\ nextId = Cardinality(templates) + 1
    /\ pc = [c \in Callers |-> "create_check"]
    /\ pending = [c \in Callers |-> NoRow]
    /\ dirty = [c \in Callers |-> NoDirty]
    /\ result = [c \in Callers |-> NoResult]
    /\ schema = Migrated

NextRace ==
    \E c \in Callers :
        \/ create_template_check(c)
        \/ create_template_flush(c)
        \/ create_template_start_build(c)
        \/ create_template_commit(c)
        \/ session_close(c)

SpecRace == InitRace /\ [][NextRace]_vars

\* ---------------------------------------- two build requests that race
\* Both callers are of one project and have posted a build request for the
\* same alias without force_rebuild; request_build's lookup found no
\* template for either, and both are about to call create_template.
InitBuildRace ==
    /\ project \in {f \in [Callers -> Projects] : f["c1"] = f["c2"]}
    /\ op \in {[c \in Callers |-> Call("build", "endpoint", A, cfg, FALSE, 0)] :
                 A \in Aliases, cfg \in CreateConfigs}
    /\ templates \in {{}} \cup {{Row(1, A, P, cfg)} :
                                   A \in Aliases, P \in Projects,
                                   cfg \in CreateConfigs}
    /\ \A t \in templates :
           ~(t.project_id = project["c1"] /\ t.alias = op["c1"].alias)
    /\ nextId = Cardinality(templates) + 1
    /\ pc = [c \in Callers |-> "create_check"]
    /\ pending = [c \in Callers |-> NoRow]
    /\ dirty = [c \in Callers |-> NoDirty]
    /\ result = [c \in Callers |-> NoResult]
    /\ schema = Migrated

SpecBuildRace == InitBuildRace /\ [][NextRace]_vars

\* ------------------------------------- one caller against any valid store
\* The store holds any rows the registry can have stored: distinct
\* identifiers, no (project, alias) pair twice, builds not yet started or
\* finished.  One caller, of project p1, looks templates up, updates and
\* deletes.
Reader == "c1"

LookupStatuses == {"pending", "ready"}

Slots ==
    {NoRow} \cup {[Row(0, A, P, cfg) EXCEPT !.build_status = s] :
                     A \in Aliases, P \in Projects, cfg \in CreateConfigs,
                     s \in LookupStatuses}

StoredRows(f) ==
    {[f[i] EXCEPT !.id = i] : i \in {j \in Ids : f[j] # NoRow}}

InitLookup ==
    /\ \E f \in [Ids -> Slots] :
          /\ templates = StoredRows(f)
          /\ \A i \in Ids, j \in Ids :
                (/\ i # j /\ f[i] # NoRow
                 /\ f[i].project_id = f[j].project_id) =>
                    f[i].alias # f[j].alias
    /\ nextId = MaxIds + 1
    /\ project = [c \in Callers |-> IF c = Reader THEN "p1" ELSE "p2"]
    /\ pc = [c \in Callers |-> "idle"]
    /\ op = [c \in Callers |-> NoOp]
    /\ pending = [c \in Callers |-> NoRow]
    /\ dirty = [c \in Callers |-> NoDirty]
    /\ result = [c \in Callers |-> NoResult]
    /\ schema = Migrated

NextLookup ==
    \/ \E template_id \in Ids : service_get_template(Reader, template_id)
    \/ \E alias \in Aliases : service_get_by_alias(Reader, alias)
    \/ \E template_id \in Ids : get_build_status(Reader, template_id)
    \/ \E template_id \in Ids, alias \in Aliases \cup {NoAlias},
          config \in UpdateConfigs :
          update_template(Reader, template_id, alias, config)
    \/ update_template_commit(Reader)
    \/ \E template_id \in Ids : delete_template(Reader, template_id)
    \/ delete_template_commit(Reader)

SpecLookup == InitLookup /\ [][NextLookup]_vars

\* ------------------------------------- one caller lists any valid store
\* values of skip and limit: negative, zero, and up to the number of rows
PageArgs == (0 - 1)..MaxIds

NextList ==
    \E skip \in PageArgs, limit \in PageArgs :
        list_templates(Reader, skip, limit)

SpecList == InitLookup /\ [][NextList]_vars

\* --------------------------------------- one caller and the build backend
\* One caller creates, updates, reads and deletes templates while the build
\* backend reports the progress of their builds.
NextStatus ==
    \/ \E template_id \in Ids : build_backend(template_id)
    \/ create_template_call(Reader)
    \/ create_template_check(Reader)
    \/ create_template_flush(Reader)
    \/ create_template_start_build(Reader)
    \/ create_template_commit(Reader)
    \/ \E template_id \in Ids, alias \in Aliases \cup {NoAlias},
          config \in UpdateConfigs :
          update_template(Reader, template_id, alias, config)
    \/ update_template_commit(Reader)
    \/ \E template_id \in Ids : delete_template(Reader, template_id)
    \/ delete_template_commit(Reader)
    \/ \E template_id \in Ids : service_get_template(Reader, template_id)
    \/ \E template_id \in Ids : get_build_status(Reader, template_id)
    \/ session_close(Reader)

SpecStatus == Init /\ [][NextStatus]_vars

\* ------------------------------------------- calls with the empty alias
NextEmpty ==
    \E c \in Callers :
        \/ \E config \in CreateConfigs : create_template(c, "", config)
        \/ \E config \in CreateConfigs, force_rebuild \in BOOLEAN :
              request_build(c, "", config, force_rebuild)
        \/ create_template_check(c)
        \/ create_template_flush(c)
        \/ create_template_start_build(c)
        \/ create_template_commit(c)
        \/ session_close(c)

SpecEmpty == Init /\ [][NextEmpty]_vars

\* ------------------------------- callers of the /templates endpoints
\* Callers holding API keys of their projects post builds to
\* /templates/build, directly or through the SDK, and read /templates/{alias}.
NextEndpoints ==
    \E c \in Callers :
        \/ \E alias \in Aliases : build_template(c, alias, "http")
        \/ \E alias \in Aliases, has_api_key \in BOOLEAN :
              sdk_request_build(c, alias, has_api_key)
        \/ build_template_commit(c)
        \/ \E alias \in Aliases : endpoint_get_template(c, alias)

SpecEndpoints == Init /\ [][NextEndpoints]_vars

\* ------------------------------------------- the migration and inserts
\* Table 'templates' holds rows with globally unique aliases and no
\* project_id, alias unique under a constraint of either name; upgrade()
\* runs statement by statement, and once it has returned callers insert
\* templates for their projects.
InitMigration ==
    /\ \E n \in 0..MaxIds :
          \E f \in [1..n -> Aliases] :
             /\ \A i \in 1..n, j \in 1..n : f[i] = f[j] => i = j
             /\ templates = {Row(i, f[i], Null, "cfg") : i \in 1..n}
    /\ nextId = Cardinality(templates) + 1
    /\ project \in {f \in [Callers -> Projects] : f["c1"] = "p1"}
    /\ pc = [c \in Callers |-> "idle"]
    /\ op = [c \in Callers |-> NoOp]
    /\ pending = [c \in Callers |-> NoRow]
    /\ dirty = [c \in Callers |-> NoDirty]
    /\ result = [c \in Callers |-> NoResult]
    /\ schema \in {Unmigrated(name) : name \in ConstraintNames}

NextMigration ==
    \/ upgrade_add_column
    \/ upgrade_assign_default
    \/ upgrade_alter_column
    \/ upgrade_drop_constraint
    \/ upgrade_create_index
    \/ upgrade_create_table
    \/ \E c \in Callers, alias \in Aliases : insert_template(c, alias)

SpecMigration == InitMigration /\ [][NextMigration]_vars

\* ------------------------------------- each caller makes one call, fairly
\* The store is empty or holds one row; each caller makes at most one call
\* (a create only while an identifier is left for it), and every caller in
\* a call, and every session to be closed, is scheduled again and again.
NotYetCalled(c) == pc[c] = "idle" /\ result[c] = NoResult

IdsLeft ==
    nextId + Cardinality({d \in Callers :
                             pc[d] \in {"create_check", "create_flush"}})
        <= MaxIds

InitLive ==
    /\ templates \in {{}} \cup {{Row(1, A, P, cfg)} :
                                   A \in Aliases, P \in Projects,
                                   cfg \in CreateConfigs}
    /\ nextId = Cardinality(templates) + 1
    /\ project \in {f \in [Callers -> Projects] : f["c1"] = "p1"}
    /\ pc = [c \in Callers |-> "idle"]
    /\ op = [c \in Callers |-> NoOp]
    /\ pending = [c \in Callers |-> NoRow]
    /\ dirty = [c \in Callers |-> NoDirty]
    /\ result = [c \in Callers |-> NoResult]
    /\ schema = Migrated

NextLive ==
    \E c \in Callers :
        \/ NotYetCalled(c) /\ IdsLeft /\ create_template_call(c)
        \/ /\ NotYetCalled(c) /\ IdsLeft
           /\ \E alias \in Aliases, config \in CreateConfigs,
                 force_rebuild \in BOOLEAN :
                 request_build(c, alias, config, force_rebuild)
        \/ /\ NotYetCalled(c)
           /\ \E template_id \in Ids, alias \in Aliases \cup {NoAlias},
                 config \in UpdateConfigs :
                 update_template(c, template_id, alias, config)
        \/ NotYetCalled(c) /\ \E template_id \in Ids :
                                  delete_template(c, template_id)
        \/ NotYetCalled(c) /\ \E template_id \in Ids :
                                  service_get_template(c, template_id)
        \/ NotYetCalled(c) /\ \E alias \in Aliases :
                                  service_get_by_alias(c, alias)
        \/ NotYetCalled(c) /\ \E template_id \in Ids :
                                  get_build_status(c, template_id)
        \/ create_template_check(c)
        \/ create_template_flush(c)
        \/ create_template_start_build(c)
        \/ create_template_commit(c)
        \/ update_template_commit(c)
        \/ delete_template_commit(c)
        \/ session_close(c)

Fairness ==
    \A c \in Callers :
        /\ WF_vars(create_template_check(c))
        /\ WF_vars(create_template_flush(c))
        /\ WF_vars(create_template_start_build(c))
        /\ WF_vars(create_template_commit(c))
        /\ WF_vars(update_template_commit(c))
        /\ WF_vars(delete_template_commit(c))
        /\ WF_vars(session_close(c))

SpecLive == InitLive /\ [][NextLive]_vars /\ Fairness

\* ------------------------------ the build backend need not ever answer
\* As above, but start_build is a call into the build backend, which may
\* take arbitrarily long or never return: every step of the registry is
\* scheduled again and again, the return of start_build is not.
FairnessRegistry ==
    \A c \in Callers :
        /\ WF_vars(create_template_check(c))
        /\ WF_vars(create_template_flush(c))
        /\ WF_vars(create_template_commit(c))
        /\ WF_vars(update_template_commit(c))
        /\ WF_vars(delete_template_commit(c))
        /\ WF_vars(session_close(c))

SpecSlowBuild == InitLive /\ [][NextLive]_vars /\ FairnessRegistry

\* ================================================================ claims
\* some stored template of project P holds alias A
Holder(P, A) == \E t \in templates : t.project_id = P /\ t.alias = A

\* some stored template of project P other than template_id holds alias A
OtherHolder(P, A, template_id) ==
    \E t \in templates :
        t.project_id = P /\ t.alias = A /\ t.id # template_id

AliasConflict(r) ==
    r.kind = "ValueError" /\ r.msg \in {MsgExistsNamed, MsgExists}

\* C1: in every reachable state no two stored Template rows have the same
\* (project id, alias) pair, whatever the callers' creates, build requests,
\* updates and deletes and their interleaving; rows of different projects
\* may share an alias.
C1_AliasUniquePerProject ==
    \A t1 \in templates, t2 \in templates :
        (t1.project_id = t2.project_id /\ t1.alias = t2.alias) => t1 = t2

\* two stored rows share the alias and differ in the project
C1_Witness ==
    \E t1 \in templates, t2 \in templates :
        t1.alias = t2.alias /\ t1.project_id # t2.project_id

\* C2: when two callers run create_template concurrently for the same
\* (project, alias) that no template holds beforehand, then once both calls
\* have ended exactly one has returned a Template and the other has failed
\* with the alias-conflict ValueError.
C2_ExactlyOneCreateWins ==
    (\A c \in Callers : pc[c] = "idle") =>
        \E c \in Callers, d \in Callers :
            /\ c # d
            /\ result[c].kind = "Template"
            /\ AliasConflict(result[d])

\* C3: a create or build request for alias A in project P1 succeeds whether
\* or not another project holds A: the build endpoint's lookup, the
\* service's pre-check and the INSERT let the request through exactly when no
\* stored template of P1 itself holds A, and the commit adds the new row
\* under a fresh identifier next to every row already stored, so a row of P2
\* with alias A and the new row of P1 then both exist.
C3_CreateScopedToProject ==
    [][\A c \in Callers :
        /\ (CanCall(c) /\ (pc'[c] = "create_check"
                            \/ result'[c].kind = "HTTPException")) =>
              \A A \in Aliases, cfg \in CreateConfigs, force \in BOOLEAN :
                  request_build(c, A, cfg, force) =>
                      (pc'[c] = "create_check" <=> ~Holder(project[c], A))
        /\ (pc[c] = "create_check" /\ pc'[c] # "create_check") =>
              (pc'[c] = "create_flush" <=> ~Holder(project[c], op[c].alias))
        /\ (pc[c] = "create_flush" /\ pc'[c] # "create_flush") =>
              (pc'[c] = "create_build" <=> ~Holder(project[c], op[c].alias))
        /\ (pc[c] = "create_commit" /\ pc'[c] # "create_commit") =>
              /\ result'[c].kind \in {"Template", "BuildResponse"}
              /\ \E new \in templates' :
                    /\ new.id = result'[c].tid
                    /\ new.project_id = project[c]
                    /\ new.alias = op[c].alias
                    /\ \A t \in templates : t.id # new.id
                    /\ templates' = templates \cup {new}
    ]_vars

\* a build request has been answered with success for a caller whose new
\* row shares its alias with an older row of another project
C3_Witness ==
    \E c \in Callers, t1 \in templates, t2 \in templates :
        /\ result[c].kind = "BuildResponse"
        /\ result[c].status = HTTP_200_OK
        /\ t2.id = result[c].tid
        /\ t2.project_id = project[c]
        /\ t1.project_id # t2.project_id
        /\ t1.alias = t2.alias
        /\ t1.id < t2.id

\* C4: while a template of project P holds alias A, a create_template for
\* (P, A) fails with the alias-conflict ValueError at its first access to the
\* store, and a create call that fails leaves the stored rows (ids, aliases,
\* projects, configs) exactly as they were and nothing flushed.
C4_DuplicateCreateRejected ==
    [][\A c \in Callers :
        /\ (/\ pc[c] = "create_check"
            /\ pc'[c] # "create_check"
            /\ Holder(project[c], op[c].alias)) =>
              /\ pc'[c] = "idle"
              /\ op[c].api = "service" =>
                    result'[c] = Raised("ValueError", MsgExistsNamed)
        /\ (pc[c] \in {"create_check", "create_flush"} /\ pc'[c] = "idle") =>
              /\ op[c].api = "service" => AliasConflict(result'[c])
              /\ templates' = templates
              /\ pending'[c] = NoRow
    ]_vars

\* a create has just failed with the conflict of the pre-check and the
\* caller's project holds a template
C4_Witness ==
    \E c \in Callers :
        /\ result[c] = Raised("ValueError", MsgExistsNamed)
        /\ \E t \in templates : t.project_id = project[c]

\* C5: a build request without force_rebuild whose alias a template of the
\* caller's project already holds is answered with status 400 and the
\* "already taken" detail naming the project.
C5_DuplicateBuildAnswered400 ==
    [][\A c \in Callers, A \in Aliases, cfg \in CreateConfigs :
        (request_build(c, A, cfg, FALSE) /\ Holder(project[c], A)) =>
            /\ result'[c].status = HTTP_400_BAD_REQUEST
            /\ result'[c].msg = DetailTaken
    ]_vars

\* C6: a build request with force_rebuild for a (P, A) that has a template
\* does not end in an error: when it is answered, the answer is 200, the prior
\* identifier no longer resolves, and exactly one row holds (P, A), under
\* the new identifier.
C6_ForceRebuildReplaces ==
    [][\A c \in Callers, A \in Aliases, cfg \in CreateConfigs :
        \A old \in get_by_alias(project[c], A) :
            (request_build(c, A, cfg, TRUE) /\ pc'[c] = "idle") =>
                /\ result'[c].status = HTTP_200_OK
                /\ (get_template(project[c], old.id))' = {}
                /\ \E new \in templates' :
                      /\ new.id = result'[c].tid
                      /\ new.id # old.id
                      /\ (get_by_alias(project[c], A))' = {new}
    ]_vars

\* C9: an update_template whose rename the store rejects at commit, because
\* another template of the project has taken the alias since the check, ends
\* with the alias-conflict ValueError, not with the raw IntegrityError, and
\* changes nothing.
C9_CommitRejectionTranslated ==
    [][\A c \in Callers :
        (/\ pc[c] = "update_commit"
         /\ pc'[c] = "idle"
         /\ dirty[c].alias # NoAlias
         /\ OtherHolder(project[c], dirty[c].alias, op[c].tid)) =>
            /\ AliasConflict(result'[c])
            /\ templates' = templates
    ]_vars

\* C10: update_template of template T of project P with alias B, where it
\* goes on to its commit or fails with the conflict: when B is
\* T's own alias the call goes on without a rename and, with nothing else to
\* change, returns T unchanged; otherwise the check lets the rename through
\* exactly when no other template of P holds B (templates of other projects
\* do not count) and fails with the conflict else; and the commit of a
\* rename of a stored T sets T's alias to B exactly when no other template
\* of P holds B then, changing nothing else.
C10_RenameIffAliasFree ==
    [][\A c \in Callers :
        \* the call goes on to its commit
        /\ (CanCall(c) /\ pc'[c] = "update_commit") =>
              \A B \in Aliases, cfg \in UpdateConfigs :
              \A T \in get_template(project[c], op'[c].tid) :
                 \/ /\ B # T.alias => ~OtherHolder(project[c], B, T.id)
                    /\ dirty'[c].alias = IF B = T.alias THEN NoAlias ELSE B
                 \/ ~update_template(c, T.id, B, cfg)
        \* the call ends with the conflict
        /\ (/\ CanCall(c) /\ pc' = pc /\ result'[c] # result[c]
            /\ AliasConflict(result'[c])) =>
              \A tid \in Ids, B \in Aliases, cfg \in UpdateConfigs :
              \A T \in get_template(project[c], tid) :
                 \/ B # T.alias /\ OtherHolder(project[c], B, tid)
                 \/ ~update_template(c, tid, B, cfg)
        \* the commit
        /\ (pc[c] = "update_commit" /\ pc'[c] = "idle") =>
              \A T \in {t \in templates : t.id = op[c].tid} :
                 LET B  == dirty[c].alias
                     T2 == [T EXCEPT !.alias = IF B # NoAlias THEN B ELSE @,
                                     !.config = IF dirty[c].config # NoConfig
                                                THEN dirty[c].config ELSE @]
                 IN  IF B # NoAlias /\ OtherHolder(T.project_id, B, T.id)
                     THEN /\ result'[c].kind # "Template"
                          /\ templates' = templates
                     ELSE /\ result'[c] = Returned("Template", T.id)
                          /\ templates' = (templates \ {T}) \cup {T2}
    ]_vars

\* a rename has passed the check, and is about to be committed, while a
\* template of another project holds the new alias
C10_Witness ==
    \E c \in Callers, t \in templates, u \in templates :
        /\ pc[c] = "update_commit"
        /\ dirty[c].alias # NoAlias
        /\ t.id = op[c].tid
        /\ t.project_id = project[c]
        /\ u.project_id # project[c]
        /\ u.alias = dirty[c].alias

\* template_id is the identifier of a stored template of project P
Owns(P, template_id) ==
    \E t \in templates : t.id = template_id /\ t.project_id = P

\* template_id is the identifier of a stored template of another project
Foreign(P, template_id) ==
    \E t \in templates : t.id = template_id /\ t.project_id # P

NotFoundError == Raised("ValueError", MsgNotFound)

\* C11: update_template and delete_template called by a caller of project P
\* with the identifier of a template of another project Q go on to their
\* commit never (only with a template of P), the update ends with the
\* not-found ValueError and the delete returns False; and a stored row is
\* changed or removed only by the commit of an update or delete of that row
\* by a caller of the row's own project.
C11_MutationsScopedToProject ==
    [][/\ \A c \in Callers :
           /\ (CanCall(c) /\ pc'[c] \in {"update_commit", "delete_commit"}) =>
                 Owns(project[c], op'[c].tid)
           /\ (/\ CanCall(c) /\ pc' = pc /\ result'[c] # result[c]
               /\ result'[c] # NotFoundError) =>
                 \A tid \in {i \in Ids : Foreign(project[c], i)},
                    B \in Aliases \cup {NoAlias}, cfg \in UpdateConfigs :
                    ~update_template(c, tid, B, cfg)
           /\ (/\ CanCall(c) /\ pc' = pc /\ result'[c] # result[c]
               /\ result'[c] # Returned("False", 0)) =>
                 \A tid \in {i \in Ids : Foreign(project[c], i)} :
                    ~delete_template(c, tid)
       /\ \A t \in templates \ templates' :
             \E c \in Callers :
                /\ project[c] = t.project_id
                /\ pc[c] \in {"update_commit", "delete_commit"}
                /\ pc'[c] = "idle"
                /\ op[c].tid = t.id
    ]_vars

\* an update has ended as not-found for a caller whose project has no
\* template, while another project has two
C11_Witness ==
    \E c \in Callers :
        /\ result[c] = NotFoundError
        /\ \A t \in templates : t.project_id # project[c]
        /\ Cardinality(templates) >= 2

\* C12: get_template(id) and get_by_alias(A) (Template.get_by_project_and_alias)
\* called for project P return a stored template whose project is P and
\* whose identifier, respectively alias, is the requested one when P has
\* such a template, and None otherwise, also when another project holds
\* the identifier or the alias; they change nothing.
C12_LookupsScopedToProject ==
    [][LET c == Reader
           P == project[c]
       IN  /\ \A tid \in Ids :
                 service_get_template(c, tid) =>
                    IF \E t \in templates : t.id = tid /\ t.project_id = P
                    THEN result'[c] = Returned("Template", tid)
                    ELSE result'[c] = Returned("None", 0)
           /\ \A A \in Aliases :
                 service_get_by_alias(c, A) =>
                    IF \E t \in templates : t.alias = A /\ t.project_id = P
                    THEN /\ result'[c].kind = "Template"
                         /\ \E t \in templates :
                               /\ t.id = result'[c].tid
                               /\ t.alias = A
                               /\ t.project_id = P
                    ELSE result'[c] = Returned("None", 0)
           /\ (pc[c] = "idle" /\ pc'[c] = "idle") => templates' = templates
    ]_vars

\* a lookup has returned None while the caller's project holds no template
\* and another project holds a template with every alias
C12_Witness ==
    /\ result[Reader] = Returned("None", 0)
    /\ \A t \in templates : t.project_id # project[Reader]
    /\ \A A \in Aliases : \E t \in templates : t.alias = A

\* C13: for a caller of project P and an identifier that no template of P
\* has, get_template, the build-status endpoint, update_template and
\* delete_template end the same way whether a template of another project
\* has the identifier or none has: None, 404 "Template not found in
\* project", the not-found ValueError and False, with nothing changed.
C13_ForeignRowsNotRevealed ==
    [][LET c == Reader
       IN  CanCall(c) =>
           \A tid \in {i \in Ids : ~Owns(project[c], i)} :
              /\ result'[c] # Returned("None", 0) =>
                    ~service_get_template(c, tid)
              /\ result'[c] # HTTPException(HTTP_404_NOT_FOUND, MsgNotFound) =>
                    ~get_build_status(c, tid)
              /\ (pc'[c] # "idle" \/ result'[c] # NotFoundError) =>
                    \A B \in Aliases \cup {NoAlias}, cfg \in UpdateConfigs :
                       ~update_template(c, tid, B, cfg)
              /\ (pc'[c] # "idle" \/ result'[c] # Returned("False", 0)) =>
                    ~delete_template(c, tid)
              /\ templates' # templates =>
                    /\ ~service_get_template(c, tid)
                    /\ ~get_build_status(c, tid)
                    /\ ~delete_template(c, tid)
                    /\ \A B \in Aliases \cup {NoAlias}, cfg \in UpdateConfigs :
                          ~update_template(c, tid, B, cfg)
    ]_vars

\* the status endpoint has answered 404 while one identifier is that of a
\* template of another project and another identifier is nobody's
C13_Witness ==
    /\ result[Reader] = HTTPException(HTTP_404_NOT_FOUND, MsgNotFound)
    /\ \E i \in Ids : Foreign(project[Reader], i)
    /\ \E j \in Ids : \A t \in templates : t.id # j
    /\ \A t \in templates : t.project_id # project[Reader]

\* C14: when create_template(A) of a caller of project P returns a
\* template, get_by_alias(P, A) returns that template, with project P and
\* the returned identifier; for as long as a stored template keeps its
\* alias, get_by_alias of its project and alias returns it alone; and
\* get_by_alias(P, A) starts to return a template only when a caller of P
\* commits a create with A or a rename to A, so it returns nothing for an
\* alias no template of P was given.
C14_CreatedFoundByAlias ==
    [][/\ \A c \in Callers :
             (pc[c] = "create_commit" /\ pc'[c] = "idle") =>
                \E t \in templates', A \in {op[c].alias} :
                   /\ t.id = result'[c].tid
                   /\ t.project_id = project[c]
                   /\ (get_by_alias(t.project_id, A))' = {t}
       /\ \A t \in templates' :
             (get_by_alias(t.project_id, t.alias))' = {t}
       /\ \A P \in Projects, A \in Aliases :
             (get_by_alias(P, A) = {} /\ (get_by_alias(P, A))' # {}) =>
                \E c \in Callers :
                   /\ project[c] = P
                   /\ pc'[c] = "idle"
                   /\ \/ pc[c] = "create_commit" /\ op[c].alias = A
                      \/ pc[c] = "update_commit" /\ dirty[c].alias = A
    ]_vars

\* a create has returned a template whose alias a template of another
\* project holds too, and the lookup by that alias finds the created one
C14_Witness ==
    \E c \in Callers, t \in templates, u \in templates :
        /\ result[c] = Returned("Template", t.id)
        /\ t.project_id = project[c]
        /\ u.project_id # t.project_id
        /\ u.alias = t.alias
        /\ get_by_alias(project[c], t.alias) = {t}

\* C15: delete_template with an identifier that no template of the caller's
\* project has returns False and leaves the store unchanged; a delete that
\* returns True has removed the template, so that a template is answered
\* with True once; and a removed identifier is never stored again, so every
\* later delete of it returns False.
C15_DeleteTrueOnce ==
    [][/\ \A c \in Callers :
             /\ (/\ CanCall(c) /\ pc' = pc
                 /\ \A d \in Callers \ {c} : result'[d] = result[d]) =>
                   \A tid \in {i \in Ids : ~Owns(project[c], i)} :
                      delete_template(c, tid) =>
                         /\ result'[c] = Returned("False", 0)
                         /\ templates' = templates
             /\ (pc[c] = "delete_commit" /\ pc'[c] = "idle") =>
                   /\ result'[c] = Returned("True", 0)
                   /\ \E t \in templates :
                         /\ t.id = op[c].tid
                         /\ templates' = templates \ {t}
       \* identifiers are handed out once
       /\ \A t \in templates' :
             (\E u \in templates : u.id = t.id)
                \/ (\E c \in Callers : pending[c] = t)
       /\ nextId' >= nextId
       /\ \A c \in Callers :
             (pending'[c] # pending[c] /\ pending'[c] # NoRow) =>
                /\ pending'[c].id = nextId
                /\ nextId' > nextId
                /\ \A u \in templates : u.id < nextId
    ]_vars

\* C16: when the build backend does not accept the build that
\* create_template starts, the create is not undone: the call still ends
\* with the template's row committed, retrievable by its identifier in the
\* caller's project, with build status failed.
C16_DispatchFailureKeepsRow ==
    [][\A c \in Callers :
          (pc[c] = "create_build" /\ pc'[c] = "idle") =>
             \E t \in (get_template(project[c], pending[c].id))' :
                t.build_status = "failed"
    ]_vars

\* C17: create_template and a build request with the empty alias end at
\* once with a validation error: no query, insert or delete is made, no
\* build is started and the store is unchanged, so that no stored template
\* has the empty alias.
C17_EmptyAliasRejected ==
    [][/\ \A c \in Callers, cfg \in CreateConfigs :
             (\/ create_template(c, "", cfg)
              \/ \E force \in BOOLEAN : request_build(c, "", cfg, force)) =>
                /\ pc'[c] = "idle"
                /\ result'[c].kind = "ValidationException"
                /\ templates' = templates
       /\ \A t \in templates' : t.alias # ""
    ]_vars

StatusStep(s1, s2) ==
    \/ s1 = "pending" /\ s2 = "building"
    \/ s1 = "building" /\ s2 \in {"ready", "failed"}

C20_AliasExistsExact ==
    \A P \in Projects, A \in Aliases, exclude_id \in Ids \cup {0} :
        alias_exists_in_project(P, A, exclude_id)
            <=> \E t \in templates :
                   /\ t.project_id = P
                   /\ t.alias = A
                   /\ exclude_id # 0 => t.id # exclude_id

\* an update has passed its alias check on a store where a template holds
\* an alias that the other project does not hold: the check is true for
\* the template's project, false for the other project and false with the
\* template excluded
C20_Witness ==
    \E t \in templates, P \in Projects :
        /\ pc[Reader] = "update_commit"
        /\ dirty[Reader].alias # NoAlias
        /\ P # t.project_id
        /\ alias_exists_in_project(t.project_id, t.alias, 0)
        /\ ~alias_exists_in_project(P, t.alias, 0)
        /\ ~alias_exists_in_project(t.project_id, t.alias, t.id)

\* C21: every alias conflict create_template ends with is the same outcome,
\* whether the pre-check or the translation of the store's rejection of the
\* INSERT raised it: the ValueError whose message names the alias and the
\* project.
C21_ConflictNamesProject ==
    [][\A c \in Callers :
          (/\ pc[c] \in {"create_check", "create_flush"}
           /\ pc'[c] = "idle"
           /\ op[c].api = "service"
           /\ AliasConflict(result'[c])) =>
             result'[c] = Raised("ValueError", MsgExistsNamed)
    ]_vars

\* C22: the pre-check of create_template decides as the store's constraint
\* would in the same state: while a create is before its INSERT, the
\* pre-check finds the alias taken exactly when the INSERT would be
\* rejected; a create the pre-check rejects ends as an INSERT rejected
\* there would, with the alias conflict and the store unchanged, and one it
\* lets through goes on to the INSERT, which would not be rejected there.
\* So a create without the pre-check ends with the same kind of outcome
\* and the same stored rows.
C22_PreCheckIsOptimization ==
    [][\A c \in Callers :
          \A row \in {Row(nextId, op[c].alias, project[c], op[c].config)} :
             /\ pc[c] \in {"create_check", "create_flush"} =>
                   (alias_exists_in_project(project[c], op[c].alias, 0)
                      <=> unique_violation(row))
             /\ (pc[c] = "create_check" /\ pc'[c] = "idle") =>
                   /\ unique_violation(row)
                   /\ ~unique_wait(c, row)
                   /\ op[c].api = "service" => AliasConflict(result'[c])
                   /\ templates' = templates
                   /\ pending'[c] = NoRow
             /\ (pc[c] = "create_check" /\ pc'[c] # "idle"
                                        /\ pc'[c] # "create_check") =>
                   /\ pc'[c] = "create_flush"
                   /\ ~unique_violation(row)
             /\ (pc[c] = "create_flush" /\ pc'[c] = "idle") =>
                   /\ unique_violation(row)
                   /\ op[c].api = "service" => AliasConflict(result'[c])
                   /\ templates' = templates
                   /\ pending'[c] = NoRow
    ]_vars

\* a create is past its pre-check and before its INSERT while a template
\* of its project, committed since, holds the alias
C22_Witness ==
    \E c \in Callers :
        /\ pc[c] = "create_flush"
        /\ Holder(project[c], op[c].alias)

C24_FailedUpdateChangesNothing ==
    [][\A c \in Callers :
          /\ (/\ pc[c] = "update_commit"
              /\ pc'[c] = "idle"
              /\ result'[c].kind # "Template") =>
                /\ templates' = templates
                /\ dirty'[c] = NoDirty
                /\ pending'[c] = pending[c]
          /\ (/\ pc[c] = "idle"
              /\ pc'[c] = "idle"
              /\ result'[c] # result[c]
              /\ result'[c].kind = "ValueError") =>
                /\ templates' = templates
                /\ dirty'[c] = NoDirty
                /\ pending'[c] = pending[c]
    ]_vars

\* an update that changed both the alias and the config had its commit
\* rejected by the store, the alias having been taken meanwhile
C24_Witness ==
    \E c \in Callers, d \in Callers :
        /\ c # d
        /\ pc[c] = "idle"
        /\ result[c].kind = "IntegrityError"
        /\ dirty[c] = NoDirty
        /\ result[d].kind = "Template"

\* C25: the commit of a created row does not wait for start_build: once
\* the row is flushed and start_build is called, the row is eventually
\* committed whether start_build returns late or never (the case of
\* start_build raising, which ends the call, set aside).
C25_CommitNeedsNoBuildReturn ==
    \A c \in Callers, i \in Ids :
        (pc[c] = "create_build" /\ pending[c].id = i)
            ~> (\/ \E t \in templates : t.id = i
                \/ pc[c] = "idle")

C27_EndpointsScopedToKeyProject ==
    [][\A c \in Callers :
          /\ \A alias \in Aliases :
                (build_template(c, alias, "http") /\ pc'[c] = "idle") =>
                    Holder(project[c], alias)
          /\ (/\ pc[c] = "build_commit"
              /\ pc'[c] = "idle"
              /\ result'[c].status = HTTP_200_OK) =>
                \A t \in templates' \ templates : t.project_id = project[c]
          /\ \A alias \in Aliases :
                (/\ endpoint_get_template(c, alias)
                 /\ result'[c].status = HTTP_200_OK) =>
                   \E t \in templates :
                      t.id = result'[c].tid /\ t.project_id = project[c]
    ]_vars

\* C28: the failures of update_template are told apart by their kind: the
\* outcome for a template not found in the project and the outcome for an
\* alias already taken are of different kinds, and neither is of the kind
\* of a generic failure.
C28_UpdateFailuresTyped ==
    [][\A c \in Callers, template_id \in Ids, alias \in Aliases,
         config \in UpdateConfigs :
          (/\ result[c] = NotFoundError
           /\ update_template(c, template_id, alias, config)
           /\ result'[c].msg = MsgExists) =>
              /\ result'[c].kind # result[c].kind
              /\ result[c].kind \notin {"ValueError", "Exception"}
              /\ result'[c].kind \notin {"ValueError", "Exception"}
    ]_vars

\* C29: the SDK's request_build, called with an API key for an alias that
\* the build endpoint finds taken in the caller's project, raises
\* BuildException with status 400 and the message that the alias is
\* already taken in the caller's project; called without an API key it
\* raises BuildException with status 401 and no request reaches the backend.
C29_SdkReportsAliasTaken ==
    [][\A c \in Callers, alias \in Aliases :
          /\ (/\ sdk_request_build(c, alias, TRUE)
              /\ Holder(get_project_id_from_api_key(c), alias)) =>
                result'[c] = BuildException(HTTP_400_BAD_REQUEST,
                                            MsgTakenYourProject)
          /\ sdk_request_build(c, alias, FALSE) =>
                /\ result'[c] = BuildException(HTTP_401_UNAUTHORIZED,
                                               MsgKeyRequired)
                /\ pc'[c] = "idle"
                /\ templates' = templates
    ]_vars

C31_BuildOnlyForPersistedRow ==
    [][\A c \in Callers :
          /\ (pc[c] # "create_build" /\ pc'[c] = "create_build") =>
                /\ pc[c] = "create_flush"
                /\ pending'[c] # NoRow
          /\ (pc[c] = "create_build" /\ pc'[c] # "create_build") =>
                /\ pc'[c] = "create_commit"
                /\ pending'[c] = pending[c]
          /\ (pc[c] = "create_commit" /\ pc'[c] # "create_commit") =>
                /\ pc'[c] = "idle"
                /\ pending[c] \in templates'
    ]_vars

\* C32: list_templates for a project returns only templates stored for
\* that project, each at most once, and no more than `limit` of them,
\* whatever skip and limit are and whatever other projects hold.
C32_ListScopedAndLimited ==
    [][\A c \in Callers, skip \in PageArgs, limit \in PageArgs :
          (/\ list_templates(c, skip, limit)
           /\ result'[c].kind = "TemplateList") =>
             LET page == result'[c].templates
             IN  /\ Len(page) <= limit
                 /\ result'[c].total = Len(page)
                 /\ \A i \in DOMAIN page :
                       \E t \in templates :
                          t.id = page[i] /\ t.project_id = project[c]
                 /\ \A i \in DOMAIN page, j \in DOMAIN page :
                       page[i] = page[j] => i = j
    ]_vars

\* a list was answered with a template of the caller's project while
\* another project has a template stored
C32_Witness ==
    \E c \in Callers :
        /\ result[c].kind = "TemplateList"
        /\ Len(result[c].templates) >= 1
        /\ \E t \in templates : t.project_id # project[c]

====
